---- MODULE Spec2Model ----
(***************************************************************************)
(* Model of the trading bot of src/bot.py: the AdvancedTrader object, its  *)
(* trade-execution primitive execute_trade, the three strategy loops that  *)
(* run in their own threads (arbitrage_opportunity, market_making,         *)
(* rebalance_portfolio) and the rate_limit decorator of the Telegram       *)
(* command handlers.  The whale watcher, of which src/bot.py holds only    *)
(* the threshold WHALE_THRESHOLD, is modelled from its specification.      *)
(*                                                                         *)
(* Source.  As shipped, src/bot.py does not parse: the call of line 88 is  *)
(* closed one parenthesis short at line 92, and lines 179-199 hold the     *)
(* markers of an unresolved merge.  The model is of the code with that     *)
(* parenthesis closed and the HEAD side of the merge.                      *)
(*                                                                         *)
(* Numbers.  The code computes with Python floats.  The rebalancer's       *)
(* amounts reach the transaction as int(amount * 1e9), where the rounding  *)
(* of the floats shows, so they are computed as the code computes them,    *)
(* in IEEE 754 binary64 (section "Python floats").  The comparisons of     *)
(* the arbitrage and market-making ticks are computed exactly, on          *)
(* integers, by cross-multiplication:                                      *)
(*   ARBITRAGE_THRESHOLD = 0.05 is ARBITRAGE_THRESHOLD_NUM / _DEN,         *)
(*   SPREAD_TARGET = 0.02 is SPREAD_TARGET_NUM / _DEN,                     *)
(* and the target allocation 0.6 / 0.3 / 0.1 is written in tenths          *)
(* (ALLOC_DEN), each target being the float nearest to its tenths.        *)
(*                                                                         *)
(* Variables whose comment says "history variable" are not fields of the   *)
(* program; they record what an operation did (its arguments, the value a  *)
(* call returned, the replies sent), so that properties can speak of it.   *)
(***************************************************************************)
EXTENDS Integers, Sequences, FiniteSets, TLC

VARIABLES
    trading_enabled,      \* AdvancedTrader.trading_enabled
    portfolio,            \* AdvancedTrader.portfolio: token -> holding (0 = key absent)
    open_orders,          \* AdvancedTrader.open_orders: the orders placed, oldest first
    transaction_history,  \* AdvancedTrader.transaction_history
    pc,                   \* position of each strategy thread in its loop
    arb,                  \* locals of arbitrage_opportunity: the prices read, the call decided
    mm,                   \* locals of market_making: best bid and best ask read and
                          \* (history) the number of orders this tick has placed
    reb,                  \* locals of rebalance_portfolio: total_value, the loop index and
                          \* (history) the holdings at the start of the tick, the number
                          \* of execute_trade calls the tick has made, the trade of the
                          \* pass just made and the transfer execute_trade built for it
    last_call,            \* history variable: the most recent call of execute_trade
    n_calls,              \* history variable: number of execute_trade calls made
    user_command_count,   \* context.bot_data['user_command_count']
    in_window,            \* history variable: commands of an identity whose sender
                          \* wrapped() has read since the identity's window last elapsed
    sent,                 \* history variable: commands of an identity whose sender
                          \* wrapped() has read, in all
    last_cmd,             \* history variable: what wrapped() did for the most recent command
    WhaleWallets,         \* the addresses recorded as whales
    block,                \* number of blocks the watcher has polled
    n_transfers,          \* history variable: number of transfers scanned
    notifications,        \* history variable: the notification events emitted, oldest first
    last_tx,              \* history variable: what the scan did with the most recent transfer
    process,              \* the Python process: "running", or "ended" once the main thread
                          \* has returned and the interpreter has exited
    adj,                  \* per strategy thread, the adjustPortfolio it is carrying out
    expected              \* history variable: per asset, the holding the trader started
                          \* with plus the deltas of the adjustments carried out since

vars == <<trading_enabled, portfolio, open_orders, transaction_history, pc, arb, mm, reb,
          last_call, n_calls, user_command_count, in_window, sent, last_cmd,
          WhaleWallets, block, n_transfers, notifications, last_tx,
          process, adj, expected>>

traderVars == <<trading_enabled, portfolio, open_orders, transaction_history, pc, arb, mm, reb,
                last_call, n_calls>>

rateVars == <<user_command_count, in_window, sent, last_cmd>>

whaleVars == <<WhaleWallets, block, n_transfers, notifications, last_tx>>

adjustVars == <<adj, expected>>

-----------------------------------------------------------------------------
(* Bounds of the model *)

MaxCommands == 7      \* commands one identity sends
MaxCalls == 1         \* execute_trade calls after which no rebalancing tick is begun
MaxOrders == 2        \* limit orders after which no market-making tick is begun
MinPrice == 20        \* lowest DEX price read
MaxPrice == 22        \* highest DEX price read
MaxBlocks == 2        \* blocks the watcher polls
MaxTransfers == 3     \* transfers the watcher scans in one run
MaxAdjust == 1        \* adjustments one strategy thread carries out

(* Program constants *)

RATE_CEILING == 5                \* the literal of "> 5" in wrapped
ARBITRAGE_THRESHOLD_NUM == 5     \* ARBITRAGE_THRESHOLD = 0.05
ARBITRAGE_THRESHOLD_DEN == 100
SPREAD_TARGET_NUM == 2           \* SPREAD_TARGET = 0.02
SPREAD_TARGET_DEN == 100
ALLOC_DEN == 10                  \* target fractions are written in tenths
LAMPORTS_PER_UNIT == 1000000000  \* the 1e9 of "lamports=int(amount * 1e9)"

Strategies == {"arbitrage", "market_making", "rebalance"}

Users == {"alice", "bob"}

Tokens == {"SOL", "USDC", "OTHER"}

\* target_allocation of rebalance_portfolio, in tenths, and its iteration order
target_allocation == [t \in Tokens |-> CASE t = "SOL" -> 6 [] t = "USDC" -> 3 [] t = "OTHER" -> 1]

TokenOrder == <<"SOL", "USDC", "OTHER">>

\* the value a successful send_transaction returns (signed_tx.value)
TxId == "tx"

\* the Python value None
None == "None"

-----------------------------------------------------------------------------
(* Telegram commands: the rate_limit decorator *)

\* wrapped(update, context) for an identity whose stored count is cnt, around a
\* handler func that raises or not (handler_raises).  Reading the sender,
\* update.message.from_user.id, raises AttributeError when the update has no
\* message or the message no from_user (has_sender is FALSE): nothing is
\* counted.  Otherwise the count is incremented and stored first; above the
\* ceiling reply_text is called once and wrapped returns, or, when the send
\* fails (reply_raises), no reply is delivered and its exception propagates;
\* within the ceiling func runs and whatever it raises propagates.
wrapped(cnt, has_sender, handler_raises, reply_raises) ==
    IF ~has_sender
    THEN [has_sender |-> FALSE, count |-> cnt, replies |-> 0, invoked |-> FALSE,
          raised |-> TRUE]
    ELSE IF cnt + 1 > RATE_CEILING
         THEN [has_sender |-> TRUE, count |-> cnt + 1,
               replies |-> IF reply_raises THEN 0 ELSE 1, invoked |-> FALSE,
               raised |-> reply_raises]
         ELSE [has_sender |-> TRUE, count |-> cnt + 1, replies |-> 0, invoked |-> TRUE,
               raised |-> handler_raises]

\* the ways a rate-limited handler is called.  rate_limit is applied to the
\* plain function handle_trade(self, update, context) in the class body, and
\* wrapped takes (update, context): called as a bound method,
\* trader.handle_trade(update, context), it is handed three arguments and the
\* call raises TypeError before the first line of wrapped; called as a
\* function of (update, context) it runs.
CallForms == {"bound_method", "function"}

NoCommand ==
    [user |-> "none", entered |-> FALSE, has_sender |-> FALSE, nth |-> 0, in_window |-> 0,
     count |-> 0, replies |-> 0, invoked |-> FALSE, raised |-> FALSE]

\* what a command that raised TypeError at the call leaves behind: no line of
\* wrapped has run
NotEntered(u) ==
    [user |-> u, entered |-> FALSE, has_sender |-> FALSE, nth |-> 0, in_window |-> 0,
     count |-> user_command_count[u], replies |-> 0, invoked |-> FALSE, raised |-> TRUE]

\* what wrapped, entered for a command of u, leaves behind when r is its
\* outcome: a command whose sender could not be read is no command of any
\* identity to the limiter, and has no place among them (nth and in_window 0)
Entered(u, r) ==
    [user |-> u, entered |-> TRUE, has_sender |-> r.has_sender,
     nth |-> IF r.has_sender THEN sent[u] + 1 ELSE 0,
     in_window |-> IF r.has_sender THEN in_window[u] + 1 ELSE 0,
     count |-> r.count, replies |-> r.replies, invoked |-> r.invoked, raised |-> r.raised]

\* a command handled with one count kept for all identities instead of one
\* per user_id
CommandSharedCount(u, form, has_sender, handler_raises, reply_raises) ==
    /\ user_command_count[u] < MaxCommands
    /\ IF form = "bound_method"
       THEN /\ last_cmd' = NotEntered(u)
            /\ UNCHANGED <<user_command_count, in_window, sent>>
       ELSE LET r == wrapped(user_command_count[u], has_sender, handler_raises, reply_raises)
            IN  /\ last_cmd' = Entered(u, r)
                /\ IF r.has_sender
                   THEN /\ user_command_count' = [v \in Users |-> r.count]
                        /\ in_window' = [in_window EXCEPT ![u] = @ + 1]
                        /\ sent' = [sent EXCEPT ![u] = @ + 1]
                   ELSE UNCHANGED <<user_command_count, in_window, sent>>
    /\ UNCHANGED <<traderVars, whaleVars, adjustVars, process>>

\* One inbound command of identity u, dispatched to a rate-limited handler
\* called as form.  As a bound method the call raises TypeError and nothing is
\* counted or replied.  As a function, wrapped runs, for an update that has a
\* sender or not, around a handler that raises or not, with a reply_text that
\* fails or not; handle_trade itself, reached this way, always raises (it is
\* handed two arguments for its three parameters), another function of
\* (update, context) under the decorator need not.
Command(u, form, has_sender, handler_raises, reply_raises) ==
    /\ user_command_count[u] < MaxCommands
    /\ IF form = "bound_method"
       THEN /\ last_cmd' = NotEntered(u)
            /\ UNCHANGED <<user_command_count, in_window, sent>>
       ELSE LET r == wrapped(user_command_count[u], has_sender, handler_raises, reply_raises)
            IN  /\ last_cmd' = Entered(u, r)
                /\ IF r.has_sender
                   THEN /\ user_command_count' = [user_command_count EXCEPT ![u] = r.count]
                        /\ in_window' = [in_window EXCEPT ![u] = @ + 1]
                        /\ sent' = [sent EXCEPT ![u] = @ + 1]
                   ELSE UNCHANGED <<user_command_count, in_window, sent>>
    /\ UNCHANGED <<traderVars, whaleVars, adjustVars, process>>

\* The clock passes the end of identity u's window.  The code keeps no time and
\* no window start, so nothing in the program's state changes.
WindowElapses(u) ==
    /\ in_window[u] > 0
    /\ in_window' = [in_window EXCEPT ![u] = 0]
    /\ UNCHANGED <<user_command_count, sent, last_cmd>>
    /\ UNCHANGED <<traderVars, whaleVars, adjustVars, process>>

-----------------------------------------------------------------------------
(* Inputs of the trader *)

Abs(x) == IF x < 0 THEN -x ELSE x

Min(x, y) == IF x < y THEN x ELSE y

\* prices get_dex_price returns
Prices == MinPrice..MaxPrice

\* best bid and best ask of the order books get_order_book returns
Books == {<<100, 101>>, <<100, 102>>, <<100, 103>>}

Holding(sol, usdc, other) ==
    [t \in Tokens |-> CASE t = "SOL" -> sol [] t = "USDC" -> usdc [] t = "OTHER" -> other]

\* holdings the trader runs with.  portfolio is a plain attribute that __init__
\* sets to {} (the first of these) and that no statement of bot.py fills; the
\* rebalancer trades only on holdings put there from outside, so the runs start
\* from each of these
Portfolios ==
    {Holding(0, 0, 0), Holding(6, 3, 1), Holding(1, 1, 0), Holding(3, 2, 0), Holding(11, 5, 4)}

\* what happens to a submission: the RPC client accepts it, send_transaction
\* raises RPCException, send_transaction raises another exception, or
\* building the transaction raises before anything is sent
RpcOutcomes == {"accepted", "rpc_exception", "send_error", "build_error"}

-----------------------------------------------------------------------------
(* Python floats.  A float of the code is an IEEE 754 binary64 number and   *)
(* every operation on floats gives the float nearest to the exact result,  *)
(* ties to the even mantissa.  Here a float that is not negative is        *)
(* [m, e], standing for m * 2^e with m a whole number of exactly           *)
(* MantissaBits bits, or FloatZero.  Whole numbers of any size are         *)
(* sequences of limbs of LimbBits bits, the least significant first,       *)
(* <<>> being 0.  The amounts of the rebalancer are far from the ends of   *)
(* the exponent range, which is left out.                                  *)

LimbBits == 15
Base == 2^LimbBits
MantissaBits == 53

\* n without its leading zero limbs
RECURSIVE BigTrim(_)
BigTrim(n) ==
    IF n # <<>> /\ n[Len(n)] = 0 THEN BigTrim(SubSeq(n, 1, Len(n) - 1)) ELSE n

RECURSIVE BigOfInt(_)
BigOfInt(k) == IF k = 0 THEN <<>> ELSE <<k % Base>> \o BigOfInt(k \div Base)

RECURSIVE IntOfBig(_)
IntOfBig(n) == IF n = <<>> THEN 0 ELSE Head(n) + Base * IntOfBig(Tail(n))

RECURSIVE BigAddCarry(_, _, _)
BigAddCarry(a, b, carry) ==
    IF a = <<>> /\ b = <<>>
    THEN BigOfInt(carry)
    ELSE LET x == IF a = <<>> THEN 0 ELSE Head(a)
             y == IF b = <<>> THEN 0 ELSE Head(b)
             sum == x + y + carry
         IN  <<sum % Base>> \o BigAddCarry(IF a = <<>> THEN a ELSE Tail(a),
                                           IF b = <<>> THEN b ELSE Tail(b), sum \div Base)

BigAdd(a, b) == BigAddCarry(a, b, 0)

RECURSIVE BigSubBorrow(_, _, _)
BigSubBorrow(a, b, borrow) ==
    IF a = <<>>
    THEN <<>>
    ELSE LET y == IF b = <<>> THEN 0 ELSE Head(b)
             d == Head(a) - y - borrow
         IN  <<IF d < 0 THEN d + Base ELSE d>>
                 \o BigSubBorrow(Tail(a), IF b = <<>> THEN b ELSE Tail(b),
                                 IF d < 0 THEN 1 ELSE 0)

\* a - b for a >= b
BigSub(a, b) == BigTrim(BigSubBorrow(a, b, 0))

RECURSIVE BigMulCarry(_, _, _)
BigMulCarry(n, k, carry) ==
    IF n = <<>>
    THEN BigOfInt(carry)
    ELSE LET p == Head(n) * k + carry
         IN  <<p % Base>> \o BigMulCarry(Tail(n), k, p \div Base)

\* n * k for a k below Base
BigMulLimb(n, k) == BigTrim(BigMulCarry(n, k, 0))

RECURSIVE BigMul(_, _)
BigMul(a, b) ==
    IF b = <<>>
    THEN <<>>
    ELSE LET rest == BigMul(a, Tail(b))
         IN  BigAdd(BigMulLimb(a, Head(b)), IF rest = <<>> THEN rest ELSE <<0>> \o rest)

RECURSIVE BigDivRem(_, _, _)
BigDivRem(n, k, rem) ==
    IF n = <<>>
    THEN [q |-> <<>>, r |-> rem]
    ELSE LET cur == rem * Base + n[Len(n)]
             low == BigDivRem(SubSeq(n, 1, Len(n) - 1), k, cur % k)
         IN  [q |-> Append(low.q, cur \div k), r |-> low.r]

\* quotient and remainder of n by a k below Base
BigDivLimb(n, k) == LET d == BigDivRem(n, k, 0) IN [q |-> BigTrim(d.q), r |-> d.r]

RECURSIVE IntBits(_)
IntBits(k) == IF k = 0 THEN 0 ELSE 1 + IntBits(k \div 2)

\* the number of bits of n
BigBits(n) == IF n = <<>> THEN 0 ELSE LimbBits * (Len(n) - 1) + IntBits(n[Len(n)])

\* n * 2^k
RECURSIVE BigShiftLeft(_, _)
BigShiftLeft(n, k) ==
    IF n = <<>> \/ k = 0
    THEN n
    ELSE IF k >= LimbBits
         THEN <<0>> \o BigShiftLeft(n, k - LimbBits)
         ELSE BigMulLimb(n, 2^k)

\* n \div 2^k, and whether a bit that is not 0 was shifted out
RECURSIVE BigShiftRight(_, _)
BigShiftRight(n, k) ==
    IF n = <<>>
    THEN [q |-> <<>>, sticky |-> FALSE]
    ELSE IF k >= LimbBits
         THEN LET high == BigShiftRight(Tail(n), k - LimbBits)
              IN  [q |-> high.q, sticky |-> high.sticky \/ Head(n) # 0]
         ELSE LET d == BigDivLimb(n, 2^k)
              IN  [q |-> d.q, sticky |-> d.r # 0]

RECURSIVE BigLess(_, _)
BigLess(a, b) ==
    IF Len(a) # Len(b)
    THEN Len(a) < Len(b)
    ELSE IF a = <<>>
         THEN FALSE
         ELSE IF a[Len(a)] # b[Len(b)]
              THEN a[Len(a)] < b[Len(b)]
              ELSE BigLess(SubSeq(a, 1, Len(a) - 1), SubSeq(b, 1, Len(b) - 1))

FloatZero == [m |-> <<>>, e |-> 0]

\* the float m * 2^e for an m of MantissaBits bits, or of one bit more
FloatNormal(m, e) ==
    IF BigBits(m) > MantissaBits
    THEN [m |-> BigShiftRight(m, 1).q, e |-> e + 1]
    ELSE [m |-> m, e |-> e]

\* the float nearest to (q + 1/2 + a little) * 2^e: half says the 1/2 is
\* there, sticky the little
FloatNearest(q, half, sticky, e) ==
    FloatNormal(IF half /\ (sticky \/ q[1] % 2 = 1) THEN BigAdd(q, <<1>>) ELSE q, e)

\* the same for keep = [q, sticky], where keep.q ends with the bit of the half
FloatHalf(keep, sticky, e) ==
    FloatNearest(BigShiftRight(keep.q, 1).q, keep.q[1] % 2 = 1, keep.sticky \/ sticky, e)

\* the float nearest to n * 2^e for an n of bits bits
FloatOfBits(n, bits, e, sticky) ==
    IF bits <= MantissaBits
    THEN [m |-> BigShiftLeft(n, MantissaBits - bits), e |-> e - (MantissaBits - bits)]
    ELSE FloatHalf(BigShiftRight(n, bits - MantissaBits - 1), sticky,
                   e + (bits - MantissaBits))

\* the float nearest to n * 2^e, or to a little more than that when sticky
\* says the exact value has further bits below those of n; ties go to the
\* even mantissa
FloatRound(n, e, sticky) ==
    IF n = <<>> THEN FloatZero ELSE FloatOfBits(n, BigBits(n), e, sticky)

\* float(k) for an int k >= 0
FloatOfInt(k) == FloatRound(BigOfInt(k), 0, FALSE)

\* a / b for ints a >= 0 and b > 0 (b below Base); also the float of the
\* decimal literal that is written a/b
FloatDivInt(a, b) ==
    LET d == BigDivLimb(BigShiftLeft(BigOfInt(a), 6 * LimbBits), b)
    IN  FloatRound(d.q, -(6 * LimbBits), d.r # 0)

\* x < y
FloatLess(x, y) ==
    IF y.m = <<>> THEN FALSE
    ELSE IF x.m = <<>> THEN TRUE
    ELSE IF x.e # y.e THEN x.e < y.e
    ELSE BigLess(x.m, y.m)

\* x - y for x >= y
FloatSub(x, y) ==
    IF y.m = <<>>
    THEN x
    ELSE FloatRound(BigSub(BigShiftLeft(x.m, x.e - y.e), y.m), y.e, FALSE)

\* x * y
FloatMul(x, y) == FloatRound(BigMul(x.m, y.m), x.e + y.e, FALSE)

\* int(x)
FloatTrunc(x) ==
    IF x.e >= 0
    THEN IntOfBig(BigShiftLeft(x.m, x.e))
    ELSE IntOfBig(BigShiftRight(x.m, -x.e).q)

-----------------------------------------------------------------------------
(* The decision of the rebalancer *)

RECURSIVE SumOver(_, _)
SumOver(f, S) ==
    IF S = {} THEN 0 ELSE LET x == CHOOSE y \in S : TRUE IN f[x] + SumOver(f, S \ {x})

\* the float of a target fraction written in tenths (the literal 0.6, 0.3, 0.1)
Target(token) == FloatDivInt(target_allocation[token], ALLOC_DEN)

\* the trade rebalance_portfolio decides for a token holding cur of
\* total_value (not 0): current_allocation = cur / total_value, and the amount
\* (target - current_allocation) * total_value of a buy or
\* (current_allocation - target) * total_value of a sell, in floats
RebDecision(token, cur, total_value) ==
    LET target == Target(token)
        current_allocation == FloatDivInt(cur, total_value)
    IN  IF FloatLess(current_allocation, target)
        THEN [side |-> "buy",
              amount |-> FloatMul(FloatSub(target, current_allocation),
                                  FloatOfInt(total_value))]
        ELSE IF FloatLess(target, current_allocation)
             THEN [side |-> "sell",
                   amount |-> FloatMul(FloatSub(current_allocation, target),
                                       FloatOfInt(total_value))]
             ELSE [side |-> "none", amount |-> FloatZero]

\* the holdings of the runs that have a value
Valued == {h \in Portfolios : SumOver(h, Tokens) # 0}

\* RebDecision on the holdings of the runs, evaluated once
RebDecisions ==
    {[token |-> t, cur |-> h[t], total_value |-> SumOver(h, Tokens),
      d |-> RebDecision(t, h[t], SumOver(h, Tokens))] : t \in Tokens, h \in Valued}

\* RebDecision, looked up where it has been evaluated
RebDecided(token, cur, total_value) ==
    LET known == {x \in RebDecisions :
                     x.token = token /\ x.cur = cur /\ x.total_value = total_value}
    IN  IF known # {}
        THEN (CHOOSE x \in known : TRUE).d
        ELSE RebDecision(token, cur, total_value)

-----------------------------------------------------------------------------
(* Core trading logic *)

\* int(amount * 1e9) on the amounts the rebalancer decides in the runs,
\* evaluated once
LamportsOf ==
    {[amount |-> x.d.amount,
      lamports |-> FloatTrunc(FloatMul(x.d.amount, FloatOfInt(LAMPORTS_PER_UNIT)))] :
        x \in RebDecisions}

\* int(amount * 1e9) for the float amount
Lamports(amount) ==
    LET known == {x \in LamportsOf : x.amount = amount}
    IN  IF known # {}
        THEN (CHOOSE x \in known : TRUE).lamports
        ELSE FloatTrunc(FloatMul(amount, FloatOfInt(LAMPORTS_PER_UNIT)))

NoTx == [to |-> "none", lamports |-> 0]

\* the transfer of execute_trade: from the bot's wallet to token_address
Transfer(token_address, amount) == [to |-> token_address, lamports |-> Lamports(amount)]

\* execute_trade in which a sell sends the transfer to the wallet itself
execute_tradeBySide(token_address, amount, order_type, enabled, rpc) ==
    LET dest == IF order_type = "sell" THEN "wallet" ELSE token_address
    IN  CASE rpc = "build_error" ->
               [submitted |-> FALSE, attempts |-> 0, ret |-> None, raised |-> TRUE, tx |-> NoTx]
          [] rpc = "accepted" ->
               [submitted |-> TRUE, attempts |-> 1, ret |-> TxId, raised |-> FALSE,
                tx |-> Transfer(dest, amount)]
          [] rpc = "rpc_exception" ->
               [submitted |-> TRUE, attempts |-> 1, ret |-> None, raised |-> FALSE,
                tx |-> Transfer(dest, amount)]
          [] rpc = "send_error" ->
               [submitted |-> TRUE, attempts |-> 1, ret |-> None, raised |-> TRUE,
                tx |-> Transfer(dest, amount)]

\* execute_trade(token_address, amount, order_type) called while
\* trading_enabled has the value enabled, against an RPC client behaving as
\* rpc.  One transfer is built and handed to send_transaction once; the
\* signature is returned, an RPCException gives None, any other exception,
\* of the build or of send_transaction, propagates (ret is then no value the
\* caller sees).  Neither order_type nor trading_enabled is read, and no field
\* of the trader is written.
execute_trade(token_address, amount, order_type, enabled, rpc) ==
    CASE rpc = "build_error" ->
           [submitted |-> FALSE, attempts |-> 0, ret |-> None, raised |-> TRUE, tx |-> NoTx]
      [] rpc = "accepted" ->
           [submitted |-> TRUE, attempts |-> 1, ret |-> TxId, raised |-> FALSE,
            tx |-> Transfer(token_address, amount)]
      [] rpc = "rpc_exception" ->
           [submitted |-> TRUE, attempts |-> 1, ret |-> None, raised |-> FALSE,
            tx |-> Transfer(token_address, amount)]
      [] rpc = "send_error" ->
           [submitted |-> TRUE, attempts |-> 1, ret |-> None, raised |-> TRUE,
            tx |-> Transfer(token_address, amount)]

NoCall ==
    [enabled |-> TRUE, rpc |-> "none", submitted |-> FALSE, attempts |-> 0, ret |-> None,
     raised |-> FALSE]

\* the record of a call of execute_trade, made while trading_enabled had the
\* value enabled and met by the RPC client with rpc, and of its result r
TradeCall(enabled, rpc, r) ==
    [enabled |-> enabled, rpc |-> rpc, submitted |-> r.submitted, attempts |-> r.attempts,
     ret |-> r.ret, raised |-> r.raised]

-----------------------------------------------------------------------------
(* Strategy loops *)

\* the loop test of a strategy that is started again after it has returned
LoopCheckRestarts(s) ==
    /\ pc[s] \in {"loop", "exited"}
    /\ pc' = [pc EXCEPT ![s] = IF trading_enabled THEN "body" ELSE "exited"]
    /\ UNCHANGED <<trading_enabled, portfolio, open_orders, transaction_history, arb, mm, reb,
                   last_call, n_calls>>
    /\ UNCHANGED <<rateVars, whaleVars, adjustVars, process>>

\* "while self.trading_enabled:" of any of the three loops
LoopCheck(s) ==
    /\ pc[s] = "loop"
    /\ pc' = [pc EXCEPT ![s] = IF trading_enabled THEN "body" ELSE "exited"]
    /\ UNCHANGED <<trading_enabled, portfolio, open_orders, transaction_history, arb, mm, reb,
                   last_call, n_calls>>
    /\ UNCHANGED <<rateVars, whaleVars, adjustVars, process>>

NoArb == [p1 |-> 0, p2 |-> 0, trade |-> FALSE, first |-> "none", second |-> "none"]

NoBook == [bid |-> 0, ask |-> 0, placed |-> 0]

NoPass ==
    [token |-> "none", side |-> "none", amount |-> FloatZero, tx |-> NoTx, read_after |-> 0]

NoReb == [total |-> 0, i |-> 0, snapshot |-> Holding(0, 0, 0), traded |-> 0, pass |-> NoPass]

\* "await asyncio.sleep(...)": the one that ends the try body (pc "sleep") or
\* the one of the except branch (pc "except"); the locals of the iteration die
Sleep(s) ==
    /\ pc[s] \in {"sleep", "except"}
    /\ pc' = [pc EXCEPT ![s] = "loop"]
    /\ arb' = IF s = "arbitrage" THEN NoArb ELSE arb
    /\ mm' = IF s = "market_making" THEN NoBook ELSE mm
    /\ reb' = IF s = "rebalance" THEN NoReb ELSE reb
    /\ UNCHANGED <<trading_enabled, portfolio, open_orders, transaction_history,
                   last_call, n_calls>>
    /\ UNCHANGED <<rateVars, whaleVars, adjustVars, process>>

\* the iteration's exception is not caught: the coroutine, and its thread, end
ExceptUncaught(s) ==
    pc' = [pc EXCEPT ![s] = "exited"]

\* "except Exception as e: logger.error(...)" of strategy s: the iteration is
\* abandoned, the error is logged and the loop is in the sleep of its except branch
Except(s) ==
    pc' = [pc EXCEPT ![s] = "except"]

\* the comparison of arbitrage_opportunity with ">=" for ">"
ArbDecisionInclusive(dex1_price, dex2_price) ==
    IF ARBITRAGE_THRESHOLD_DEN * Abs(dex1_price - dex2_price)
           >= ARBITRAGE_THRESHOLD_NUM * Min(dex1_price, dex2_price)
    THEN IF dex1_price > dex2_price
         THEN [trade |-> TRUE, first |-> "orca", second |-> "raydium"]
         ELSE [trade |-> TRUE, first |-> "raydium", second |-> "orca"]
    ELSE [trade |-> FALSE, first |-> "none", second |-> "none"]

\* the comparison of arbitrage_opportunity and the arguments it passes to
\* execute_arbitrage(first, second, "SOL"); dex1 is raydium, dex2 is orca
ArbDecision(dex1_price, dex2_price) ==
    IF ARBITRAGE_THRESHOLD_DEN * Abs(dex1_price - dex2_price)
           > ARBITRAGE_THRESHOLD_NUM * Min(dex1_price, dex2_price)
    THEN IF dex1_price > dex2_price
         THEN [trade |-> TRUE, first |-> "orca", second |-> "raydium"]
         ELSE [trade |-> TRUE, first |-> "raydium", second |-> "orca"]
    ELSE [trade |-> FALSE, first |-> "none", second |-> "none"]

\* get_dex_price(dex, "SOL"): the price p of the market, or it raises
get_dex_price(p, raises) == [price |-> p, raised |-> raises]

\* execute_arbitrage(buy_dex, sell_dex, token): the order goes out, or it raises
execute_arbitrage(buy_dex, sell_dex, token, raises) == [raised |-> raises]

\* get_order_book("SOL"): the best bid and the best ask, or it raises
get_order_book(book, raises) == [bid |-> book[1], ask |-> book[2], raised |-> raises]

\* place_limit_order(token, price, side), the open orders being orders: it
\* raises and leaves them, or the order is placed and is one more open order,
\* in state Pending.  The method is called by market_making and defined
\* nowhere in src/; that it records the order is the specification's
\* ("place a limit buy ... and a limit sell ... as OpenOrders").
place_limit_order(orders, token, price400, side, raises) ==
    [raised |-> raises,
     open_orders |->
         IF raises
         THEN orders
         ELSE Append(orders, [pair |-> token, side |-> side, price400 |-> price400,
                              state |-> "Pending"])]

\* prices are kept in units of 1/400, the denominator of mid * (1 -+ SPREAD_TARGET/2)
PriceScale == 4 * SPREAD_TARGET_DEN

\* the limit prices taken off the bid and off the ask instead of off the mid price
LimitPriceOffBidAsk(bid, ask, side) ==
    IF side = "buy"
    THEN 2 * bid * (2 * SPREAD_TARGET_DEN - SPREAD_TARGET_NUM)
    ELSE 2 * ask * (2 * SPREAD_TARGET_DEN + SPREAD_TARGET_NUM)

\* bid_price = mid_price * (1 - SPREAD_TARGET/2) and ask_price = mid_price *
\* (1 + SPREAD_TARGET/2) with mid_price = (ask + bid) / 2, times PriceScale
LimitPrice(bid, ask, side) ==
    IF side = "buy"
    THEN (ask + bid) * (2 * SPREAD_TARGET_DEN - SPREAD_TARGET_NUM)
    ELSE (ask + bid) * (2 * SPREAD_TARGET_DEN + SPREAD_TARGET_NUM)

\* arbitrage_opportunity: the two price reads and the decision
ArbRead(p1, p2, raises) ==
    /\ pc["arbitrage"] = "body"
    /\ LET q1 == get_dex_price(p1, raises)
           q2 == get_dex_price(p2, raises)
           d == ArbDecision(q1.price, q2.price)
       IN  IF q1.raised \/ q2.raised
           THEN /\ Except("arbitrage")
                /\ arb' = NoArb
           ELSE /\ arb' = [p1 |-> q1.price, p2 |-> q2.price, trade |-> d.trade,
                           first |-> d.first, second |-> d.second]
                /\ pc' = [pc EXCEPT !["arbitrage"] = IF d.trade THEN "call" ELSE "sleep"]
    /\ UNCHANGED <<trading_enabled, portfolio, open_orders, transaction_history, mm, reb,
                   last_call, n_calls>>
    /\ UNCHANGED <<rateVars, whaleVars, adjustVars, process>>

\* arbitrage_opportunity: "await self.execute_arbitrage(first, second, "SOL")"
ArbCall(raises) ==
    /\ pc["arbitrage"] = "call"
    /\ IF execute_arbitrage(arb.first, arb.second, "SOL", raises).raised
       THEN Except("arbitrage")
       ELSE /\ pc' = [pc EXCEPT !["arbitrage"] = "sleep"]
    /\ UNCHANGED <<trading_enabled, portfolio, open_orders, transaction_history, arb, mm, reb,
                   last_call, n_calls>>
    /\ UNCHANGED <<rateVars, whaleVars, adjustVars, process>>

\* the comparison of market_making: spread > SPREAD_TARGET
SpreadExceeds(bid, ask) ==
    SPREAD_TARGET_DEN * (ask - bid) > SPREAD_TARGET_NUM * bid

\* market_making: the order book read and the decision
MMRead(book, raises) ==
    /\ pc["market_making"] = "body"
    /\ Len(open_orders) < MaxOrders
    /\ LET order_book == get_order_book(book, raises)
       IN  IF order_book.raised
           THEN /\ Except("market_making")
                /\ mm' = NoBook
           ELSE /\ mm' = [bid |-> order_book.bid, ask |-> order_book.ask, placed |-> 0]
                /\ pc' = [pc EXCEPT !["market_making"] =
                             IF SpreadExceeds(order_book.bid, order_book.ask)
                             THEN "buy" ELSE "sleep"]
    /\ UNCHANGED <<trading_enabled, portfolio, open_orders, transaction_history, arb, reb,
                   last_call, n_calls>>
    /\ UNCHANGED <<rateVars, whaleVars, adjustVars, process>>

\* market_making: "await self.place_limit_order("SOL", price, side)", first the
\* buy and then the sell.  market_making itself writes no field of the trader:
\* the open orders after the step are those place_limit_order leaves.
MMPlace(side, raises) ==
    /\ pc["market_making"] = side
    /\ LET r == place_limit_order(open_orders, "SOL", LimitPrice(mm.bid, mm.ask, side),
                                  side, raises)
       IN  IF r.raised
           THEN /\ Except("market_making")
                /\ UNCHANGED <<open_orders, mm>>
           ELSE /\ pc' = [pc EXCEPT !["market_making"] =
                             IF side = "buy" THEN "sell" ELSE "sleep"]
                /\ open_orders' = r.open_orders
                /\ mm' = [mm EXCEPT !.placed = @ + 1]
    /\ UNCHANGED <<trading_enabled, portfolio, transaction_history, arb, reb,
                   last_call, n_calls>>
    /\ UNCHANGED <<rateVars, whaleVars, adjustVars, process>>

\* rebalance_portfolio: "total_value = sum(self.portfolio.values())"
RebStart ==
    /\ pc["rebalance"] = "body"
    /\ n_calls < MaxCalls
    /\ reb' = [total |-> SumOver(portfolio, Tokens), i |-> 1, snapshot |-> portfolio,
               traded |-> 0, pass |-> NoPass]
    /\ pc' = [pc EXCEPT !["rebalance"] = "token"]
    /\ UNCHANGED <<trading_enabled, portfolio, open_orders, transaction_history, arb, mm,
                   last_call, n_calls>>
    /\ UNCHANGED <<rateVars, whaleVars, adjustVars, process>>

\* a division that gives 0 where the code's raises
DivisionByZeroIgnored(total_value) == FALSE

\* "current_allocation = ... / total_value" raises ZeroDivisionError
DivisionByZero(total_value) == total_value = 0

\* the end of one pass of the for loop, the pass having been pass and the tick
\* having made traded calls of execute_trade so far
RebAdvance(pass, traded) ==
    IF reb.i < Len(TokenOrder)
    THEN /\ reb' = [reb EXCEPT !.i = @ + 1, !.pass = pass, !.traded = traded]
         /\ pc' = pc
    ELSE /\ reb' = [reb EXCEPT !.pass = pass, !.traded = traded]
         /\ pc' = [pc EXCEPT !["rebalance"] = "sleep"]

\* the record of a pass: its asset, its decision d and the transfer built; the
\* holding it compared was read from self.portfolio in the pass itself, after
\* the read_after calls of execute_trade the tick had made by then
PassOf(token, d, tx) ==
    [token |-> token, side |-> d.side, amount |-> d.amount, tx |-> tx,
     read_after |-> reb.traded]

\* the rest of a pass for token once execute_trade(token, d.amount, d.side),
\* called when d.side is a side, has had the result r: an exception of the
\* call leaves the for loop for the except clause
RebTraded(token, d, r, rpc) ==
    IF d.side = "none"
    THEN /\ RebAdvance(PassOf(token, d, NoTx), reb.traded)
         /\ UNCHANGED <<last_call, n_calls>>
    ELSE /\ n_calls' = n_calls + 1
         /\ last_call' = TradeCall(trading_enabled, rpc, r)
         /\ IF r.raised
            THEN /\ Except("rebalance")
                 /\ reb' = [reb EXCEPT !.pass = PassOf(token, d, r.tx), !.traded = @ + 1]
            ELSE RebAdvance(PassOf(token, d, r.tx), reb.traded + 1)

\* a pass for token, the comparison of its allocation with its target having
\* given d
RebPass(token, d, rpc) ==
    RebTraded(token, d, execute_trade(token, d.amount, d.side, trading_enabled, rpc), rpc)

\* rebalance_portfolio: one pass of "for token, target in target_allocation.items()",
\* with the execute_trade it awaits
RebToken(rpc) ==
    /\ pc["rebalance"] = "token"
    /\ IF DivisionByZero(reb.total)
       THEN /\ Except("rebalance")
            /\ UNCHANGED <<reb, last_call, n_calls>>
       ELSE RebPass(TokenOrder[reb.i],
                    RebDecided(TokenOrder[reb.i], portfolio[TokenOrder[reb.i]], reb.total),
                    rpc)
    /\ UNCHANGED <<trading_enabled, portfolio, open_orders, transaction_history, arb, mm>>
    /\ UNCHANGED <<rateVars, whaleVars, adjustVars, process>>

\* the operator command that switches trading on or off
SetTradingEnabled(b) ==
    /\ trading_enabled # b
    /\ trading_enabled' = b
    /\ UNCHANGED <<portfolio, open_orders, transaction_history, pc, arb, mm, reb,
                   last_call, n_calls>>
    /\ UNCHANGED <<rateVars, whaleVars, adjustVars, process>>

\* The main thread returns from updater.idle() on a stop signal and the
\* interpreter exits.  The strategy threads are daemon threads: they are not
\* told and not waited for, each is stopped wherever it is, and nothing sets
\* trading_enabled.
Shutdown ==
    /\ process = "running"
    /\ process' = "ended"
    /\ UNCHANGED <<traderVars, rateVars, whaleVars, adjustVars>>

-----------------------------------------------------------------------------
(* Portfolio adjustments.  The specification has the trading state apply    *)
(* adjustPortfolio(asset, delta) for every accepted trade; src/ has no such *)
(* operation (execute_trade writes nothing).  What follows is that          *)
(* operation as a strategy thread would carry it out on the trader of src/: *)
(* self.portfolio is a plain dict, __init__ creates no lock, and each       *)
(* strategy runs in a thread of its own, so                                 *)
(*   self.portfolio[asset] = self.portfolio.get(asset, 0) + delta           *)
(* is a read and a later store, with other threads' steps between them.     *)

Deltas == {1, 2}

NoAdjust == [phase |-> "idle", asset |-> "none", delta |-> 0, seen |-> 0, done |-> 0]

\* thread s begins adjustPortfolio(asset, delta): it reads the holding
adjustPortfolioRead(s, asset, delta) ==
    /\ adj[s].phase = "idle"
    /\ adj[s].done < MaxAdjust
    /\ adj' = [adj EXCEPT ![s] = [phase |-> "read", asset |-> asset, delta |-> delta,
                                  seen |-> portfolio[asset], done |-> adj[s].done]]
    /\ UNCHANGED <<traderVars, expected>>
    /\ UNCHANGED <<rateVars, whaleVars, process>>

\* thread s ends its adjustPortfolio: it stores the holding it read plus delta
adjustPortfolioWrite(s) ==
    /\ adj[s].phase = "read"
    /\ portfolio' = [portfolio EXCEPT ![adj[s].asset] = adj[s].seen + adj[s].delta]
    /\ expected' = [expected EXCEPT ![adj[s].asset] = @ + adj[s].delta]
    /\ adj' = [adj EXCEPT ![s] = [NoAdjust EXCEPT !.done = adj[s].done + 1]]
    /\ UNCHANGED <<trading_enabled, open_orders, transaction_history, pc, arb, mm, reb,
                   last_call, n_calls>>
    /\ UNCHANGED <<rateVars, whaleVars, process>>

-----------------------------------------------------------------------------
(* The whale watcher.  src/bot.py sets WHALE_THRESHOLD and nothing in src/  *)
(* reads it; the scan below is the one the specification describes: for    *)
(* each transfer of a polled block, look up the USD price; if the lookup   *)
(* fails skip the transfer; otherwise usd_value = value * price, and if    *)
(* usd_value >= WHALE_THRESHOLD and the sender is not in WhaleWallets,     *)
(* insert the sender and emit a notification.                              *)

WHALE_THRESHOLD == 100000

Addresses == {"A", "B"}
Values == {500, 1000}          \* transfer values, in native units
UsdPrices == {100, 150}        \* USD prices of one unit

NoTransfer == [block |-> 0, sender |-> "", usd_value |-> 0, skipped |-> FALSE,
               was_whale |-> FALSE, notified |-> FALSE]

\* the scan of one transfer with the membership test left out
scan_transactionNoDedup(sender, value, price, lookup_fails, whales) ==
    IF lookup_fails
    THEN [skipped |-> TRUE, usd_value |-> 0, notify |-> FALSE, whales |-> whales]
    ELSE LET usd_value == value * price
         IN  IF usd_value >= WHALE_THRESHOLD
             THEN [skipped |-> FALSE, usd_value |-> usd_value, notify |-> TRUE,
                   whales |-> whales \cup {sender}]
             ELSE [skipped |-> FALSE, usd_value |-> usd_value, notify |-> FALSE,
                   whales |-> whales]

\* the scan of one transfer: whether it is skipped, its USD value, whether a
\* notification is emitted, and the whale set afterwards
scan_transaction(sender, value, price, lookup_fails, whales) ==
    IF lookup_fails
    THEN [skipped |-> TRUE, usd_value |-> 0, notify |-> FALSE, whales |-> whales]
    ELSE LET usd_value == value * price
         IN  IF usd_value >= WHALE_THRESHOLD /\ sender \notin whales
             THEN [skipped |-> FALSE, usd_value |-> usd_value, notify |-> TRUE,
                   whales |-> whales \cup {sender}]
             ELSE [skipped |-> FALSE, usd_value |-> usd_value, notify |-> FALSE,
                   whales |-> whales]

\* pollNextBlock returns the next block
PollNextBlock ==
    /\ block < MaxBlocks
    /\ block' = block + 1
    /\ UNCHANGED <<WhaleWallets, n_transfers, notifications, last_tx>>
    /\ UNCHANGED <<traderVars, rateVars, adjustVars, process>>

\* the watcher scans the next transfer of the block it has polled
ScanTransfer(sender, value, price, lookup_fails) ==
    /\ block >= 1
    /\ n_transfers < MaxTransfers
    /\ LET r == scan_transaction(sender, value, price, lookup_fails, WhaleWallets)
       IN  /\ WhaleWallets' = r.whales
           /\ notifications' =
                  IF r.notify
                  THEN Append(notifications,
                              [sender |-> sender, block |-> block, usd_value |-> r.usd_value])
                  ELSE notifications
           /\ last_tx' = [block |-> block, sender |-> sender, usd_value |-> r.usd_value,
                          skipped |-> r.skipped, was_whale |-> sender \in WhaleWallets,
                          notified |-> r.notify]
    /\ n_transfers' = n_transfers + 1
    /\ UNCHANGED block
    /\ UNCHANGED <<traderVars, rateVars, adjustVars, process>>

-----------------------------------------------------------------------------
(* Specifications *)

Init ==
    /\ trading_enabled = TRUE
    /\ portfolio \in Portfolios
    /\ open_orders = <<>>
    /\ transaction_history = <<>>
    /\ pc = [s \in Strategies |-> "loop"]
    /\ arb = NoArb
    /\ mm = NoBook
    /\ reb = NoReb
    /\ last_call = NoCall
    /\ n_calls = 0
    /\ user_command_count = [u \in Users |-> 0]
    /\ in_window = [u \in Users |-> 0]
    /\ sent = [u \in Users |-> 0]
    /\ last_cmd = NoCommand
    /\ WhaleWallets = {}
    /\ block = 0
    /\ n_transfers = 0
    /\ notifications = <<>>
    /\ last_tx = NoTransfer
    /\ process = "running"
    /\ adj = [s \in Strategies |-> NoAdjust]
    /\ expected = portfolio

\* the trader: the three strategy threads and the trading switch
Next ==
    \/ \E s \in Strategies : LoopCheck(s)
    \/ \E s \in Strategies : Sleep(s)
    \/ \E p1 \in Prices, p2 \in Prices, raises \in BOOLEAN : ArbRead(p1, p2, raises)
    \/ \E raises \in BOOLEAN : ArbCall(raises)
    \/ \E book \in Books, raises \in BOOLEAN : MMRead(book, raises)
    \/ \E side \in {"buy", "sell"}, raises \in BOOLEAN : MMPlace(side, raises)
    \/ RebStart
    \/ \E rpc \in RpcOutcomes : RebToken(rpc)
    \/ \E b \in BOOLEAN : SetTradingEnabled(b)

Spec == Init /\ [][Next]_vars

\* the command gateway: commands of the identities and the passing of time
NextRate ==
    \/ \E u \in Users, form \in CallForms,
          has_sender \in BOOLEAN, handler_raises \in BOOLEAN, reply_raises \in BOOLEAN :
           Command(u, form, has_sender, handler_raises, reply_raises)
    \/ \E u \in Users : WindowElapses(u)

SpecRate == Init /\ [][NextRate]_vars

\* the whale watcher: the blocks it polls and the transfers it scans
NextWhale ==
    \/ PollNextBlock
    \/ \E sender \in Addresses, value \in Values, price \in UsdPrices, lookup_fails \in BOOLEAN :
           ScanTransfer(sender, value, price, lookup_fails)

SpecWhale == Init /\ [][NextWhale]_vars

\* the trader and the end of its process
NextStop ==
    \/ process = "running" /\ Next
    \/ Shutdown

SpecStop == Init /\ [][NextStop]_vars

\* the strategy threads adjusting the portfolio
NextAdjust ==
    \/ \E s \in Strategies, asset \in Tokens, delta \in Deltas :
           adjustPortfolioRead(s, asset, delta)
    \/ \E s \in Strategies : adjustPortfolioWrite(s)

SpecAdjust == Init /\ [][NextAdjust]_vars

-----------------------------------------------------------------------------
(* Properties *)

\* the outcome the specification gives a trade refused by the trading switch
Cancelled == "Cancelled"

\* a call of execute_trade has been made
TradeCalled == last_call.rpc # "none"

\* C1: every call of execute_trade made while trading_enabled is False fails
\* with the outcome Cancelled and submits no transaction to the RPC client.
C1_DisabledTradeIsCancelled ==
    (TradeCalled /\ ~last_call.enabled) =>
        (last_call.ret = Cancelled /\ ~last_call.submitted)

\* this step is a call of execute_trade whose submission was accepted
AcceptedStep == n_calls' = n_calls + 1 /\ last_call'.ret = TxId

\* C2: a step changes the portfolio exactly when it is an execute_trade whose
\* submission was accepted, and that same step appends exactly one record to
\* transaction_history.
C2_AcceptedTradeIsApplied ==
    [][/\ AcceptedStep => /\ portfolio' # portfolio
                          /\ Len(transaction_history') = Len(transaction_history) + 1
       /\ portfolio' # portfolio => AcceptedStep]_vars

CommandHandled == last_cmd.user # "none"

\* the limiter has taken the command as one of its identity: wrapped ran and
\* read the sender
Counted == CommandHandled /\ last_cmd.entered /\ last_cmd.has_sender

\* C4: a command is allowed exactly when it is among the first RATE_CEILING
\* commands of its identity in the current window; after the window has
\* elapsed the identity's commands are allowed again.
C4_WindowedLimit ==
    Counted =>
        (last_cmd.invoked <=> last_cmd.in_window <= RATE_CEILING)

\* C5: the stored count of an identity never exceeds the ceiling.
C5_CountWithinCeiling ==
    \A u \in Users : user_command_count[u] <= RATE_CEILING

\* the limiter approved the command: the identity's count, this command
\* included, is within the ceiling
Approved == Counted /\ last_cmd.count <= RATE_CEILING

\* the limiter denied the command
Denied == Counted /\ last_cmd.count > RATE_CEILING

\* C6: the handler runs if and only if the limiter approved the command; a
\* denied command gets exactly one reply, runs no handler and raises nothing;
\* a command that was not denied gets no denial reply.
C6_HandlerIffApproved ==
    CommandHandled =>
        /\ last_cmd.invoked <=> Approved
        /\ Denied => (last_cmd.replies = 1 /\ ~last_cmd.invoked /\ ~last_cmd.raised)
        /\ ~Denied => last_cmd.replies = 0

\* this step is strategy s starting a trade-execution or order-placement call
StartsCall(s) ==
    CASE s = "arbitrage" -> pc[s] = "call" /\ pc'[s] # "call"
      [] s = "market_making" -> pc[s] \in {"buy", "sell"} /\ pc'[s] # pc[s]
      [] s = "rebalance" -> n_calls' = n_calls + 1

\* C7: every trade-execution or order-placement call a strategy starts is
\* started in a state where trading_enabled is True.
C7_CallsOnlyWhileEnabled ==
    [][\A s \in Strategies : StartsCall(s) => trading_enabled]_vars

\* C8: a submission that the RPC client fails is retried: execute_trade does
\* not give up on it after a single attempt.
C8_FailedSubmissionIsRetried ==
    (TradeCalled /\ last_call.rpc = "rpc_exception") => last_call.attempts >= 2

\* C9: strategy isolation.  A step in which a strategy's iteration raises puts
\* that strategy in its except branch and moves no other strategy; from the
\* except branch the strategy goes back to its loop test; from the loop test
\* it starts the next iteration while trading_enabled is True; and a strategy
\* loop ends only at its loop test, on reading trading_enabled False.
C9_StrategyIsolation ==
    [][\A s \in Strategies :
          /\ (pc[s] # "except" /\ pc'[s] = "except") =>
                 \A t \in Strategies \ {s} : pc'[t] = pc[t]
          /\ (pc[s] = "except" /\ pc'[s] # "except") => pc'[s] = "loop"
          /\ (pc[s] = "loop" /\ pc'[s] # "loop" /\ trading_enabled) => pc'[s] = "body"
          /\ (pc[s] # "exited" /\ pc'[s] = "exited") =>
                 (pc[s] = "loop" /\ ~trading_enabled)]_vars

\* market making is in its except branch while trading is on and the other two
\* strategies are in the middle of an iteration
C9_Witness ==
    /\ trading_enabled
    /\ pc["market_making"] = "except"
    /\ pc["arbitrage"] = "call"
    /\ pc["rebalance"] = "token"

\* the price arbitrage_opportunity read on a market
PriceRead(dex) == IF dex = "raydium" THEN arb.p1 ELSE arb.p2

\* arbitrage_opportunity has read the two prices of this tick
PricesRead == arb.p1 # 0

\* C10: with the two prices of a tick read, the arbitrage strategy goes on to
\* its order call if and only if |p1-p2|/min(p1,p2) is strictly greater than
\* ARBITRAGE_THRESHOLD = 5/100, and then the market it passes first (the one
\* to buy on) has the lower price and the one it passes second the higher.
C10_ArbitrageThreshold ==
    /\ PricesRead =>
          /\ arb.trade <=> 100 * Abs(arb.p1 - arb.p2) > 5 * Min(arb.p1, arb.p2)
          /\ arb.trade => PriceRead(arb.first) < PriceRead(arb.second)
          /\ ~arb.trade => pc["arbitrage"] = "sleep"
    /\ pc["arbitrage"] = "call" => (PricesRead /\ arb.trade)

\* a tick has read two prices exactly 5% apart and goes to sleep without a trade
C10_Witness ==
    /\ PricesRead
    /\ 100 * Abs(arb.p1 - arb.p2) = 5 * Min(arb.p1, arb.p2)
    /\ ~arb.trade
    /\ pc["arbitrage"] = "sleep"

\* every asset's fraction is off its target, by no more than a band of one
\* tenth, for holdings of the given total
WithinBand(holdings, total_value) ==
    \A t \in Tokens :
        LET dev10 == Abs(ALLOC_DEN * holdings[t] - target_allocation[t] * total_value)
        IN  dev10 > 0 /\ dev10 <= total_value

\* C11: while every asset's fraction is within the hysteresis band of its
\* target, no step of the rebalancing tick is an execute_trade call.
C11_NoTradeWithinBand ==
    [][(pc["rebalance"] = "token" /\ WithinBand(portfolio, reb.total))
           => n_calls' = n_calls]_vars

\* the pass of the rebalancing tick just made
PassMade == reb.pass.token # "none"

\* C16: the pass a rebalancing tick makes for an asset decides from one
\* snapshot, the holdings and the total value read at the start of the tick:
\* its holding was read before any execute_trade call of the tick; it is a buy
\* of (target - current) * total_value below target, a sell of
\* (current - target) * total_value above it, nothing on target, the amount
\* being that expression in floats, which in lamports is within one of the
\* expression in real numbers; and the passes of a tick take the assets one
\* by one, in the order of the target map.
C16_RebalanceTrades ==
    PassMade =>
        LET token == reb.pass.token
            cur10 == 10 * reb.snapshot[token]
            want10 == target_allocation[token] * reb.total
            amount == RebDecided(token, reb.snapshot[token], reb.total).amount
        IN  /\ reb.total = SumOver(reb.snapshot, Tokens)
            /\ reb.pass.read_after = 0
            /\ cur10 < want10 =>
                   /\ reb.pass.side = "buy"
                   /\ reb.pass.amount = amount
                   /\ Abs(Lamports(reb.pass.amount) - (want10 - cur10) * 100000000) <= 1
            /\ cur10 > want10 =>
                   /\ reb.pass.side = "sell"
                   /\ reb.pass.amount = amount
                   /\ Abs(Lamports(reb.pass.amount) - (cur10 - want10) * 100000000) <= 1
            /\ cur10 = want10 => (reb.pass.side = "none" /\ reb.pass.tx = NoTx)
            /\ pc["rebalance"] = "token" => token = TokenOrder[reb.i - 1]
            /\ pc["rebalance"] = "except" => token = TokenOrder[reb.i]
            /\ pc["rebalance"] = "sleep" => token = TokenOrder[Len(TokenOrder)]

\* C17: with an empty or zero-valued portfolio no step is an execute_trade
\* call; the tick ends in the except branch, never in the sleep of the try
\* body; from there the loop goes back to its test and, trading being on,
\* into its next tick.
C17_EmptyPortfolioTick ==
    [][SumOver(portfolio, Tokens) = 0 =>
          /\ n_calls' = n_calls
          /\ pc'["rebalance"] # "sleep"
          /\ (pc["rebalance"] = "token" /\ pc'["rebalance"] # "token")
                 => pc'["rebalance"] = "except"
          /\ (pc["rebalance"] = "except" /\ pc'["rebalance"] # "except")
                 => pc'["rebalance"] = "loop"
          /\ (pc["rebalance"] = "loop" /\ pc'["rebalance"] # "loop" /\ trading_enabled)
                 => pc'["rebalance"] = "body"]_vars

\* the tick on the empty portfolio has raised and been caught
C17_Witness ==
    /\ SumOver(portfolio, Tokens) = 0
    /\ pc["rebalance"] = "except"
    /\ reb.i = 1
    /\ n_calls = 0
    /\ trading_enabled

\* C20: the transfer execute_trade builds is the same for a buy and for a
\* sell: to token_address, of int(amount * 1e9) lamports; and on an
\* RPCException it returns None and raises nothing.
C20_TransferIgnoresSide ==
    /\ (PassMade /\ reb.pass.tx # NoTx) =>
           /\ reb.pass.side \in {"buy", "sell"}
           /\ reb.pass.tx.to = reb.pass.token
           /\ reb.pass.tx.lamports = Lamports(reb.pass.amount)
    /\ (TradeCalled /\ last_call.rpc = "rpc_exception") =>
           (last_call.ret = None /\ ~last_call.raised)

\* a sell has been sent as a transfer to the token and met an RPCException
C20_Witness ==
    /\ PassMade
    /\ reb.pass.side = "sell"
    /\ reb.pass.tx.to = reb.pass.token
    /\ reb.pass.tx.lamports > 0
    /\ last_call.rpc = "rpc_exception"
    /\ pc["rebalance"] # "except"

\* the most steps strategy s can still take before it is back at its loop test
IterationLeft(s) ==
    CASE pc[s] \in {"loop", "exited"} -> 0
      [] pc[s] \in {"sleep", "except"} -> 1
      [] pc[s] \in {"call", "sell"} -> 2
      [] pc[s] = "buy" -> 3
      [] pc[s] = "token" -> 2 + Len(TokenOrder) - reb.i
      [] pc[s] = "body" -> 3 + Len(TokenOrder)

\* this step is a step of strategy s
Steps(s) == pc'[s] # pc[s] \/ (s = "rebalance" /\ reb' # reb)

\* C14: a strategy that reads trading_enabled False at its loop test exits
\* there, writing nothing; a strategy inside an iteration only moves towards
\* its loop test (the rest of the iteration, then one sleep), so the first
\* test after the stop is at most that far away; and at a shutdown every
\* strategy loop has exited by the time the process ends.
C14_StopObserved ==
    [][/\ \A s \in Strategies :
             /\ (pc[s] = "loop" /\ ~trading_enabled /\ pc'[s] # "loop") =>
                    /\ pc'[s] = "exited"
                    /\ UNCHANGED <<portfolio, open_orders, transaction_history>>
             /\ (pc[s] \notin {"loop", "exited"} /\ Steps(s)) =>
                    IterationLeft(s)' < IterationLeft(s)
             /\ pc'[s] = "exited" => pc[s] \in {"loop", "exited"}
       /\ process' = "ended" => \A s \in Strategies : pc'[s] = "exited"]_vars

\* C19: a strategy loop that has exited stays exited, whatever trading_enabled
\* is set to afterwards, and starts no call.
C19_ExitedStaysExited ==
    [][\A s \in Strategies :
          pc[s] = "exited" => (pc'[s] = "exited" /\ ~StartsCall(s))]_vars

\* trading is on again after a strategy has exited
C19_Witness ==
    /\ trading_enabled
    /\ pc["market_making"] = "exited"
    /\ pc["arbitrage"] = "body"

\* C18: the counts are kept per identity: the stored count of an identity is
\* the number of that identity's commands whose sender the limiter read, and
\* the k-th of them is allowed exactly when k is at most RATE_CEILING,
\* whatever the others sent.
C18_CountsPerIdentity ==
    /\ \A u \in Users : user_command_count[u] = sent[u]
    /\ Counted => (last_cmd.invoked <=> last_cmd.nth <= RATE_CEILING)

\* bob's first command is allowed after alice has run into the limit
C18_Witness ==
    /\ CommandHandled
    /\ last_cmd.user = "bob"
    /\ last_cmd.nth = 1
    /\ last_cmd.invoked
    /\ user_command_count["alice"] > RATE_CEILING

\* C12: at no time are there two Pending orders for the same pair and side.
C12_NoDuplicatePending ==
    \A i \in DOMAIN open_orders : \A j \in DOMAIN open_orders :
        (i # j /\ open_orders[i].state = "Pending" /\ open_orders[j].state = "Pending")
            => ~(open_orders[i].pair = open_orders[j].pair
                 /\ open_orders[i].side = open_orders[j].side)

\* market_making has read an order book in this tick
BookRead == mm.bid # 0

\* the tick of market_making is over and nothing in it has raised
TickOver == pc["market_making"] = "sleep"

\* the order placed k places before the end of open_orders (0 is the newest)
Placed(k) == open_orders[Len(open_orders) - k]

\* C13, as stated: a tick on a spread above SPREAD_TARGET places exactly two
\* orders, a tick on any other spread none; and on bid=100, ask=103 the two
\* orders are those of the scenario, a buy at about 99 and a sell at about
\* 104 (here: within one unit of price).
C13_ScenarioOrders ==
    /\ (BookRead /\ TickOver) =>
           mm.placed = (IF SpreadExceeds(mm.bid, mm.ask) THEN 2 ELSE 0)
    /\ (BookRead /\ mm.bid = 100 /\ mm.ask = 103 /\ mm.placed = 2) =>
           /\ Abs(Placed(1).price400 - 99 * 400) <= 400
           /\ Abs(Placed(0).price400 - 104 * 400) <= 400

\* C13, amended: a tick on a spread above SPREAD_TARGET places a buy at
\* mid*(1-SPREAD_TARGET/2) = 198/400 * (ask+bid) and then a sell at
\* mid*(1+SPREAD_TARGET/2) = 202/400 * (ask+bid), and nothing else (a call
\* that raises ends the tick with the orders placed so far); a tick on any
\* other spread places nothing.  On bid=100, ask=103 the two prices are
\* 100.485 and 102.515.
C13_LimitOrders ==
    BookRead =>
        /\ ~SpreadExceeds(mm.bid, mm.ask) => (mm.placed = 0 /\ pc["market_making"] = "sleep")
        /\ SpreadExceeds(mm.bid, mm.ask) =>
               /\ pc["market_making"] = "buy" => mm.placed = 0
               /\ pc["market_making"] = "sell" => mm.placed = 1
               /\ pc["market_making"] = "sleep" => mm.placed = 2
               /\ pc["market_making"] = "except" => mm.placed \in {0, 1}
        /\ mm.placed = 1 =>
               /\ Placed(0).side = "buy"
               /\ Placed(0).price400 = 198 * (mm.ask + mm.bid)
        /\ mm.placed = 2 =>
               /\ Placed(1).side = "buy"
               /\ Placed(1).price400 = 198 * (mm.ask + mm.bid)
               /\ Placed(0).side = "sell"
               /\ Placed(0).price400 = 202 * (mm.ask + mm.bid)
        /\ (mm.bid = 100 /\ mm.ask = 103 /\ mm.placed = 2) =>
               /\ 1000 * Placed(1).price400 = 100485 * 400
               /\ 1000 * Placed(0).price400 = 102515 * 400

\* a tick on bid=100, ask=103 has placed its two orders
C13_Witness ==
    /\ BookRead
    /\ mm.bid = 100
    /\ mm.ask = 103
    /\ mm.placed = 2
    /\ pc["market_making"] = "sleep"
    /\ Len(open_orders) = 2

\* the notifications emitted for address a
NotificationsOf(a) == {i \in DOMAIN notifications : notifications[i].sender = a}

\* C15: an address is reported as a newly detected whale at most once; the
\* addresses reported are exactly those in the whale set (the sender is
\* inserted in the step that notifies); every notification is for a transfer
\* worth at least WHALE_THRESHOLD; and a scanned transfer notifies exactly
\* when its price is known, its USD value is at least WHALE_THRESHOLD and
\* its sender was not yet in the whale set.
C15_WhaleReportedOnce ==
    /\ \A a \in Addresses : Cardinality(NotificationsOf(a)) <= 1
    /\ \A a \in Addresses : (NotificationsOf(a) # {}) <=> (a \in WhaleWallets)
    /\ \A i \in DOMAIN notifications : notifications[i].usd_value >= WHALE_THRESHOLD
    /\ last_tx # NoTransfer =>
          /\ last_tx.notified <=> /\ ~last_tx.skipped
                                  /\ last_tx.usd_value >= WHALE_THRESHOLD
                                  /\ ~last_tx.was_whale
          /\ last_tx.notified => last_tx.sender \in WhaleWallets

\* the scenario: 1000 units at 150 from A notified in the first block, and the
\* same transfer from A in a later block emits nothing
C15_Witness ==
    /\ \E i \in DOMAIN notifications :
          notifications[i] = [sender |-> "A", block |-> 1, usd_value |-> 150000]
    /\ last_tx = [block |-> 2, sender |-> "A", usd_value |-> 150000, skipped |-> FALSE,
                  was_whale |-> TRUE, notified |-> FALSE]
    /\ Cardinality(NotificationsOf("A")) = 1

====
